---- MODULE Spec2Model ----
(***************************************************************************)
(* Model of the ingestion engine of the OLAP data lakehouse                *)
(* (src/etl-go/main.go): one invocation of the ETL binary per process,     *)
(* sharing one warehouse (PostgreSQL) and one object store (MinIO).        *)
(*                                                                         *)
(* Strings are sequences of one-character strings, so that the sanitizers  *)
(* and the name builders are computed as the code computes them.           *)
(* Every call on an external service is one atomic step of a process; the  *)
(* environment decides whether the service answers with an error.          *)
(***************************************************************************)
EXTENDS Integers, Sequences, FiniteSets, TLC

\* ------------------------------------------------------------------ bounds
\* longest batch the extraction of a single invocation delivers
MaxBatch == 2
\* most records the extractions of two invocations that share the stores
\* deliver together
ConcTotal == 3
\* longest of the short names given to the sanitizers
MaxNameLen == 2
\* most values of one column given to the type inference
MaxSample == 3
\* most columns of a table given to the classifier
MaxColumns == 3
\* most records of a batch behind the records given to the schema inference
MaxTail == 2

\* ------------------------------------------------------- program constants
\* PostgreSQL identifier limit used by the sanitizers
MaxIdentLen == 63
\* number of leading records sampled for type inference
SampleLimit == 100
\* number of leading bytes identifyFormatByContent reads
SniffLen == 512
\* FileFormat
Unknown == 0
CSV == 1
JSON == 2
XLSX == 3
XLS == 4
DUMP == 5
TAR == 6
TARGZ == 7
SQL == 8

\* ----------------------------------------------------------------- strings
LowerChars == <<"a","b","c","d","e","f","g","h","i","j","k","l","m",
                "n","o","p","q","r","s","t","u","v","w","x","y","z">>
UpperChars == <<"A","B","C","D","E","F","G","H","I","J","K","L","M",
                "N","O","P","Q","R","S","T","U","V","W","X","Y","Z">>
DigitChars == <<"0","1","2","3","4","5","6","7","8","9">>

Range(s) == {s[i] : i \in DOMAIN s}

LowerSet == Range(LowerChars)
UpperSet == Range(UpperChars)
DigitSet == Range(DigitChars)

IsLowerChar(c) == c \in LowerSet
IsDigitChar(c) == c \in DigitSet

\* strings.ToLower on one character
ToLowerChar(c) ==
    IF c \in UpperSet
    THEN LowerChars[CHOOSE i \in DOMAIN UpperChars : UpperChars[i] = c]
    ELSE c

ToLower(s) == [i \in DOMAIN s |-> ToLowerChar(s[i])]

\* the strings.Map callback of both sanitizers
SafeChar(c) == IF IsLowerChar(c) \/ IsDigitChar(c) \/ c = "_" THEN c ELSE "_"

Truncate(s, n) == IF Len(s) > n THEN SubSeq(s, 1, n) ELSE s

\* strings.Contains
Contains(s, sub) ==
    \E i \in 0..(Len(s) - Len(sub)) : SubSeq(s, i + 1, i + Len(sub)) = sub

\* the decimal rendering of %d for a natural number
RECURSIVE Itoa(_)
Itoa(n) == IF n < 10 THEN <<DigitChars[n + 1]>>
           ELSE Itoa(n \div 10) \o <<DigitChars[(n % 10) + 1]>>

\* a sanitizer that truncates before it adds the role prefix
SanitizeWith_truncatingFirst(prefix, name) ==
    LET lowered == ToLower(name)
        mapped  == Truncate([i \in DOMAIN lowered |-> SafeChar(lowered[i])], MaxIdentLen)
    IN  IF Len(mapped) > 0 /\ (IsDigitChar(mapped[1]) \/ mapped[1] = "_")
        THEN prefix \o mapped
        ELSE mapped

SanitizeWith(prefix, name) ==
    LET lowered == ToLower(name)
        mapped  == [i \in DOMAIN lowered |-> SafeChar(lowered[i])]
        started == IF Len(mapped) > 0 /\ (IsDigitChar(mapped[1]) \/ mapped[1] = "_")
                   THEN prefix \o mapped
                   ELSE mapped
    IN  Truncate(started, MaxIdentLen)

SanitizeTableName(tableName) == SanitizeWith(<<"t", "_">>, tableName)

SanitizeColumnName(colName) == SanitizeWith(<<"c", "_">>, colName)

\* ------------------------------------------------------------------ values
\* A scalar of a record: its runtime kind and its text.
NULL == [kind |-> "null", v |-> <<>>]
IntV(n) == [kind |-> "int", v |-> Itoa(n)]
FloatV(n) == [kind |-> "float", v |-> Itoa(n)]
TextV(s) == [kind |-> "string", v |-> s]
BoolV(b) == [kind |-> "bool", v |-> IF b THEN <<"t">> ELSE <<"f">>]

\* the source keys and, per key, the scalars a source delivers under it
Keys == {<<"a">>, <<"B">>}
ValuesOf(k) == IF k = <<"a">> THEN {FloatV(1)} ELSE {TextV(<<"x">>)}

\* DataRecord: a map from some of the keys to scalars
Records ==
    UNION {{r \in [ks -> UNION {ValuesOf(k) : k \in ks}] :
               \A k \in ks : r[k] \in ValuesOf(k)} : ks \in SUBSET Keys}

RECURSIVE SeqsUpTo(_, _)
SeqsUpTo(S, n) ==
    IF n = 0 THEN {<<>>}
    ELSE LET shorter == SeqsUpTo(S, n - 1)
         IN  shorter \cup {Append(q, x) : q \in {t \in shorter : Len(t) = n - 1}, x \in S}

\* the batches of at most n records an extraction can deliver
Batches(n) == SeqsUpTo(Records, n)

\* the records of the sources of two invocations that share the stores: all
\* keys, the first key only, or no key at all
ConcRecords == {r \in Records : <<"B">> \in DOMAIN r => <<"a">> \in DOMAIN r}

ConcBatches(n) == SeqsUpTo(ConcRecords, n)

\* ---------------------------------------------------------- type inference
\* an inference that looks for integers before it looks for floats
InferColumnType_integerFirst(values) ==
    LET nonNull   == {i \in DOMAIN values : values[i].kind # "null"}
        hasInt    == \E i \in nonNull : values[i].kind = "int"
        hasFloat  == \E i \in nonNull : values[i].kind = "float"
        hasString == \E i \in nonNull : values[i].kind \notin {"int", "float"}
    IN  IF hasInt /\ ~hasString THEN "INTEGER"
        ELSE IF hasFloat THEN "NUMERIC"
        ELSE "TEXT"

InferColumnType(values) ==
    LET nonNull   == {i \in DOMAIN values : values[i].kind # "null"}
        hasInt    == \E i \in nonNull : values[i].kind = "int"
        hasFloat  == \E i \in nonNull : values[i].kind = "float"
        dateLike(i) == /\ values[i].kind = "string"
                       /\ Contains(ToLower(values[i].v), <<"2", "0">>)
                       /\ Len(values[i].v) >= 8
        hasDate   == \E i \in nonNull : dateLike(i)
        hasString == \E i \in nonNull :
                        /\ values[i].kind \notin {"int", "float"}
                        /\ ~dateLike(i)
    IN  IF hasFloat THEN "NUMERIC"
        ELSE IF hasInt /\ ~hasFloat /\ ~hasString THEN "INTEGER"
        ELSE IF hasDate /\ ~hasString THEN "DATE"
        ELSE "TEXT"

\* ------------------------------------------------------------ the warehouse
\* A table: its columns with their declared types, its rows in insertion
\* order and the next value of the surrogate key's sequence.
IdCol == <<"i", "d">>

\* columnValues of CreateTableIfNotExists: the values sampled under one key
ColumnValues(data, key, n) ==
    LET holding == SelectSeq(SubSeq(data, 1, n), LAMBDA record : key \in DOMAIN record)
    IN  [i \in DOMAIN holding |-> holding[i][key]]

\* a sample of the whole batch
SampleSize_wholeBatch(data) == Len(data)

\* sampleSize of CreateTableIfNotExists
SampleSize(data) == IF Len(data) > SampleLimit THEN SampleLimit ELSE Len(data)

\* columnsDef of CreateTableIfNotExists, indexed by the source key
ColumnsDef(data) ==
    LET n    == SampleSize(data)
        keys == UNION {DOMAIN data[i] : i \in 1..n}
    IN  [k \in keys |-> [name |-> SanitizeColumnName(k),
                         type |-> InferColumnType(ColumnValues(data, k, n))]]

\* the statement without IF NOT EXISTS: an existing relation is an error
CreateTableRejected_withoutIfNotExists(tbls, name, def) ==
    \/ DOMAIN def = {}
    \/ \E k \in DOMAIN def : def[k].name = <<>>
    \/ name \in DOMAIN tbls
    \/ \E k1, k2 \in DOMAIN def : k1 # k2 /\ def[k1].name = def[k2].name
    \/ \E k \in DOMAIN def : def[k].name = IdCol

\* CREATE TABLE IF NOT EXISTS <name> (<"col" type, ...>, id SERIAL PRIMARY KEY):
\* the statement does not parse with an empty column list or an empty quoted
\* identifier; an existing relation makes it a no-op; otherwise a column named
\* twice is an error.
CreateTableRejected(tbls, name, def) ==
    \/ DOMAIN def = {}
    \/ \E k \in DOMAIN def : def[k].name = <<>>
    \/ /\ name \notin DOMAIN tbls
       /\ \/ \E k1, k2 \in DOMAIN def : k1 # k2 /\ def[k1].name = def[k2].name
          \/ \E k \in DOMAIN def : def[k].name = IdCol

NewTable(def) ==
    LET names == {def[k].name : k \in DOMAIN def}
    IN  [cols   |-> [c \in names \cup {IdCol} |->
                        IF c = IdCol THEN "SERIAL"
                        ELSE def[CHOOSE k \in DOMAIN def : def[k].name = c].type],
         rows   |-> <<>>,
         nextid |-> 1]

\* a statement that drops and recreates the table
ExecCreateTable_replacing(tbls, name, def) == (name :> NewTable(def)) @@ tbls

ExecCreateTable(tbls, name, def) ==
    IF name \in DOMAIN tbls THEN tbls ELSE (name :> NewTable(def)) @@ tbls

\* INSERT INTO <name> (<cols>) VALUES ($1, ...): needs a non-empty list of
\* distinct, non-empty column names that are all columns of the table.
InsertRejected(tbls, name, cols) ==
    \/ name \notin DOMAIN tbls
    \/ cols = <<>>
    \/ \E i \in DOMAIN cols : cols[i] = <<>>
    \/ \E i, j \in DOMAIN cols : i # j /\ cols[i] = cols[j]
    \/ \E i \in DOMAIN cols : cols[i] \notin DOMAIN tbls[name].cols

\* the row an accepted INSERT adds: the bound values under their columns, the
\* surrogate key from the sequence, NULL everywhere else
NewRow(tbl, cols, values) ==
    [c \in DOMAIN tbl.cols |->
        IF c \in Range(cols) THEN values[CHOOSE i \in DOMAIN cols : cols[i] = c]
        ELSE IF c = IdCol THEN IntV(tbl.nextid)
        ELSE NULL]

\* an insert that replaces the rows of the table by the new row
ExecInsert_overwriting(tbls, name, cols, values) ==
    [tbls EXCEPT ![name] = [@ EXCEPT !.rows = <<NewRow(tbls[name], cols, values)>>,
                                     !.nextid = IF IdCol \in Range(cols) THEN @ ELSE @ + 1]]

ExecInsert(tbls, name, cols, values) ==
    [tbls EXCEPT ![name] = [@ EXCEPT !.rows = Append(@, NewRow(tbls[name], cols, values)),
                                     !.nextid = IF IdCol \in Range(cols) THEN @ ELSE @ + 1]]

\* ------------------------------------------------------------------- names
\* filepath.Base for a path without trailing separator
RECURSIVE Base(_)
Base(path) ==
    IF path = <<>> THEN <<".">>
    ELSE IF "/" \notin Range(path) THEN path
    ELSE Base(Tail(path))

\* ETL_SOURCE_FILE and ETL_SOURCE_QUERY of the invocations
FilePath == <<"/", "i", "n", "/", "d", ".", "j", "s", "o", "n">>
Query == <<"q">>

\* objectName of LoadToMinIO
ObjectName(fileName) == <<"r", "a", "w", "/">> \o fileName

\* a table name that leaves the record count out
LoadTableName_withoutCount(n) == <<"a", "u", "t", "o", "_", "t", "a", "b", "l", "e">>

\* tableName of LoadToPostgreSQL: auto_table_<len(data)>
LoadTableName(n) == <<"a", "u", "t", "o", "_", "t", "a", "b", "l", "e", "_">> \o Itoa(n)

\* viewName of CreateStarSchemaViews
ViewName(tableName) ==
    tableName \o <<"_", "s", "t", "a", "r", "_", "v", "i", "e", "w">>

\* the orders in which a range over a Go map can deliver the keys
Orders(S) == {q \in [1..Cardinality(S) -> S] : Range(q) = S}

\* -------------------------------------------------------- format detection
\* Bytes are one-character strings; a byte that is no printable character is
\* written as its two hexadecimal digits ("D0").
Max(S) == CHOOSE x \in S : \A y \in S : y <= x

Min(S) == CHOOSE x \in S : \A y \in S : x <= y

HasSuffix(s, suffix) ==
    Len(s) >= Len(suffix) /\ SubSeq(s, Len(s) - Len(suffix) + 1, Len(s)) = suffix

\* filepath.Ext: the suffix from the last dot of the last path element on
Ext(path) ==
    LET dots == {i \in DOMAIN path :
                    path[i] = "." /\ \A j \in i..Len(path) : path[j] # "/"}
    IN  IF dots = {} THEN <<>> ELSE SubSeq(path, Max(dots), Len(path))

SpaceChars == {" ", "\t", "\n", "\r"}

\* strings.TrimSpace, and the white space json skips around a value
TrimSpace(s) ==
    LET solid == {i \in DOMAIN s : s[i] \notin SpaceChars}
    IN  IF solid = {} THEN <<>> ELSE SubSeq(s, Min(solid), Max(solid))

\* the pieces of s between the positions of cuts, in order
SplitAt(s, cuts) ==
    LET cut(k) == IF k = 0 THEN 0
                  ELSE IF k = Cardinality(cuts) + 1 THEN Len(s) + 1
                  ELSE CHOOSE i \in cuts : Cardinality({j \in cuts : j < i}) = k - 1
    IN  [k \in 1..(Cardinality(cuts) + 1) |-> SubSeq(s, cut(k - 1) + 1, cut(k) - 1)]

\* strings.Split on a one-byte separator
Split(s, sep) == SplitAt(s, {i \in DOMAIN s : s[i] = sep})

\* JSON as encoding/json accepts it, for documents whose strings hold no
\* escape; numbers without exponent.
\* position i of s lies outside every string and every bracket of s
AtTop(s, i) ==
    /\ Cardinality({j \in 1..(i - 1) : s[j] = "\""}) % 2 = 0
    /\ Cardinality({j \in 1..(i - 1) : s[j] \in {"[", "{"}})
          = Cardinality({j \in 1..(i - 1) : s[j] \in {"]", "}"}})

\* the elements of an array or the members of an object
SplitTop(s, sep) == SplitAt(s, {i \in DOMAIN s : s[i] = sep /\ AtTop(s, i)})

JsonLiterals ==
    {<<"t", "r", "u", "e">>, <<"f", "a", "l", "s", "e">>, <<"n", "u", "l", "l">>}

IsDigits(s) == s # <<>> /\ \A i \in DOMAIN s : IsDigitChar(s[i])

IsJsonInt(s) ==
    LET digits == IF s # <<>> /\ s[1] = "-" THEN Tail(s) ELSE s
    IN  IsDigits(digits) /\ (Len(digits) > 1 => digits[1] # "0")

IsJsonNumber(s) ==
    LET parts == Split(s, ".")
    IN  \/ Len(parts) = 1 /\ IsJsonInt(parts[1])
        \/ Len(parts) = 2 /\ IsJsonInt(parts[1]) /\ IsDigits(parts[2])

IsJsonString(s) ==
    /\ Len(s) >= 2
    /\ s[1] = "\""
    /\ s[Len(s)] = "\""
    /\ \A i \in 2..(Len(s) - 1) : s[i] \notin {"\"", "\\", "\t", "\n", "\r"}

Bracketed(t, open, close) == Len(t) >= 2 /\ t[1] = open /\ t[Len(t)] = close

Inner(t) == SubSeq(t, 2, Len(t) - 1)

\* the position of the colon of a member of an object, 0 if it has none
ColonOf(member) ==
    LET colons == {i \in DOMAIN member : member[i] = ":" /\ AtTop(member, i)}
    IN  IF colons = {} THEN 0 ELSE Min(colons)

RECURSIVE IsJsonValue(_)
IsJsonValue(s) ==
    LET t == TrimSpace(s)
        elements == SplitTop(Inner(t), ",")
        isMember(m) ==
            /\ ColonOf(m) > 0
            /\ IsJsonString(TrimSpace(SubSeq(m, 1, ColonOf(m) - 1)))
            /\ IsJsonValue(SubSeq(m, ColonOf(m) + 1, Len(m)))
    IN  \/ t \in JsonLiterals
        \/ IsJsonNumber(t)
        \/ IsJsonString(t)
        \/ /\ Bracketed(t, "[", "]")
           /\ \/ TrimSpace(Inner(t)) = <<>>
              \/ \A k \in DOMAIN elements : IsJsonValue(elements[k])
        \/ /\ Bracketed(t, "{", "}")
           /\ \/ TrimSpace(Inner(t)) = <<>>
              \/ \A k \in DOMAIN elements : isMember(elements[k])

\* isJSON: json.Unmarshal into a RawMessage returns no error
isJSON(bytes) == IsJsonValue(bytes)

\* isXLSX: at least 4 bytes, the first two PK
isXLSX(bytes) == Len(bytes) >= 4 /\ bytes[1] = "P" /\ bytes[2] = "K"

\* isXLS: at least 8 bytes, the first four D0 CF 11 E0
isXLS(bytes) ==
    Len(bytes) >= 8 /\ SubSeq(bytes, 1, 4) = <<"D0", "CF", "11", "E0">>

SqlWords ==
    {<<"c", "r", "e", "a", "t", "e", " ", "t", "a", "b", "l", "e">>,
     <<"i", "n", "s", "e", "r", "t", " ", "i", "n", "t", "o">>,
     <<"s", "e", "l", "e", "c", "t", " ">>,
     <<"d", "r", "o", "p", " ", "t", "a", "b", "l", "e">>}

isSQL(bytes) ==
    LET content == ToLower(TrimSpace(bytes))
    IN  \E w \in SqlWords : Contains(content, w)

\* identifyFormatByContent on the file f behind filePath
identifyFormatByContent(f) ==
    LET buffer == Truncate(f.content, SniffLen)
    IN  IF ~f.readable THEN Unknown
        ELSE IF isJSON(buffer) THEN JSON
        ELSE IF isXLSX(buffer) THEN XLSX
        ELSE IF isXLS(buffer) THEN XLS
        ELSE IF isSQL(buffer) THEN SQL
        ELSE Unknown

\* the extensions of the switch of GetFileFormat
KnownExts ==
    {<<".", "c", "s", "v">>, <<".", "j", "s", "o", "n">>, <<".", "x", "l", "s", "x">>,
     <<".", "x", "l", "s">>, <<".", "d", "u", "m", "p">>, <<".", "t", "a", "r">>,
     <<".", "g", "z">>, <<".", "s", "q", "l">>}

\* GetFileFormat reads the file only in the default case of its switch
ReadsContent(f) == ToLower(Ext(f.path)) \notin KnownExts

\* a detection that looks at the content first
GetFileFormat_contentFirst(f) ==
    LET ext == ToLower(Ext(f.path))
    IN  IF identifyFormatByContent(f) # Unknown THEN identifyFormatByContent(f)
        ELSE IF ext = <<".", "c", "s", "v">> THEN CSV
        ELSE IF ext = <<".", "j", "s", "o", "n">> THEN JSON
        ELSE IF ext = <<".", "x", "l", "s", "x">> THEN XLSX
        ELSE IF ext = <<".", "x", "l", "s">> THEN XLS
        ELSE IF ext = <<".", "d", "u", "m", "p">> THEN DUMP
        ELSE IF ext = <<".", "t", "a", "r">> THEN TAR
        ELSE IF ext = <<".", "g", "z">>
             THEN IF HasSuffix(ToLower(f.path), <<".", "t", "a", "r", ".", "g", "z">>)
                  THEN TARGZ ELSE DUMP
        ELSE IF ext = <<".", "s", "q", "l">> THEN SQL
        ELSE Unknown

\* GetFileFormat on the file f behind filePath
GetFileFormat(f) ==
    LET ext == ToLower(Ext(f.path))
    IN  IF ext = <<".", "c", "s", "v">> THEN CSV
        ELSE IF ext = <<".", "j", "s", "o", "n">> THEN JSON
        ELSE IF ext = <<".", "x", "l", "s", "x">> THEN XLSX
        ELSE IF ext = <<".", "x", "l", "s">> THEN XLS
        ELSE IF ext = <<".", "d", "u", "m", "p">> THEN DUMP
        ELSE IF ext = <<".", "t", "a", "r">> THEN TAR
        ELSE IF ext = <<".", "g", "z">>
             THEN IF HasSuffix(ToLower(f.path), <<".", "t", "a", "r", ".", "g", "z">>)
                  THEN TARGZ ELSE DUMP
        ELSE IF ext = <<".", "s", "q", "l">> THEN SQL
        ELSE identifyFormatByContent(f)

\* -------------------------------------------------------------- extraction
\* what an extractor returns: an error, or the records
Failure == [err |-> TRUE, data |-> <<>>]

Extracted(data) == [err |-> FALSE, data |-> data]

StripCR(line) ==
    IF line # <<>> /\ line[Len(line)] = "\r" THEN SubSeq(line, 1, Len(line) - 1) ELSE line

\* csv.Reader.ReadAll with the default settings, for contents without quoted
\* fields: one record per non-empty line, the fields between the commas; a
\* quote within a field and a record with another number of fields than the
\* first are errors
ReadAll(content) ==
    LET lines   == Split(content, "\n")
        solid   == SelectSeq([k \in DOMAIN lines |-> StripCR(lines[k])], LAMBDA l : l # <<>>)
        records == [k \in DOMAIN solid |-> Split(solid[k], ",")]
    IN  IF \/ \E k \in DOMAIN solid : "\"" \in Range(solid[k])
           \/ \E k \in DOMAIN records : Len(records[k]) # Len(records[1])
        THEN [err |-> TRUE, records |-> <<>>]
        ELSE [err |-> FALSE, records |-> records]

\* the record of one row: the cell under each header that has one
CsvRecord(headers, row) ==
    LET filled == {j \in DOMAIN headers : j <= Len(row)}
    IN  [h \in {headers[j] : j \in filled} |->
            TextV(row[Max({j \in filled : headers[j] = h})])]

\* a loop over the rows that starts at the header row
CsvRecords_withHeaderRow(records) ==
    [i \in 1..Len(records) |-> CsvRecord(records[1], records[i])]

\* the loop of ExtractFromCSV over the rows behind the header row
CsvRecords(records) ==
    [i \in 1..(Len(records) - 1) |-> CsvRecord(records[1], records[i + 1])]

ExtractFromCSV(f) ==
    IF ~f.readable THEN Failure
    ELSE LET parsed == ReadAll(f.content)
         IN  IF parsed.err \/ parsed.records = <<>> THEN Failure
             ELSE Extracted(CsvRecords(parsed.records))

\* the Go value json.Unmarshal gives for a value of an object
JsonScalar(text) ==
    LET t == TrimSpace(text)
    IN  IF t = <<"n", "u", "l", "l">> THEN NULL
        ELSE IF t \in JsonLiterals THEN BoolV(t = <<"t", "r", "u", "e">>)
        ELSE IF IsJsonString(t) THEN TextV(Inner(t))
        ELSE IF IsJsonNumber(t) THEN [kind |-> "float", v |-> t]
        ELSE [kind |-> "nested", v |-> t]

\* the DataRecord of an object, or of null; of a repeated key the last value
JsonRecord(text) ==
    LET t       == TrimSpace(text)
        members == IF t = <<"n", "u", "l", "l">> \/ TrimSpace(Inner(t)) = <<>> THEN <<>>
                   ELSE SplitTop(Inner(t), ",")
        key(k)  == Inner(TrimSpace(SubSeq(members[k], 1, ColonOf(members[k]) - 1)))
        val(k)  == SubSeq(members[k], ColonOf(members[k]) + 1, Len(members[k]))
    IN  [name \in {key(k) : k \in DOMAIN members} |->
            JsonScalar(val(Max({k \in DOMAIN members : key(k) = name})))]

\* ExtractFromJSON: an array of objects, or one object
ExtractFromJSON(f) ==
    LET t        == TrimSpace(f.content)
        elements == IF TrimSpace(Inner(t)) = <<>> THEN <<>> ELSE SplitTop(Inner(t), ",")
        isRecord(e) == TrimSpace(e) = <<"n", "u", "l", "l">> \/ Bracketed(TrimSpace(e), "{", "}")
    IN  IF ~f.readable \/ ~IsJsonValue(f.content) THEN Failure
        ELSE IF t = <<"n", "u", "l", "l">> THEN Extracted(<<>>)
        ELSE IF Bracketed(t, "{", "}") THEN Extracted(<<JsonRecord(t)>>)
        ELSE IF Bracketed(t, "[", "]") /\ \A k \in DOMAIN elements : isRecord(elements[k])
             THEN Extracted([k \in DOMAIN elements |-> JsonRecord(elements[k])])
        ELSE Failure

\* what the spreadsheet libraries can make of a readable file: an error, a
\* sheet with a header row only, a sheet with one row under the header
SheetBatches == {<<>>, <<[k \in {<<"B">>} |-> TextV(<<"x">>)]>>}

ExtractFromXLSX(f) ==
    {Failure} \cup (IF f.readable THEN {Extracted(b) : b \in SheetBatches} ELSE {})

ExtractFromXLS(f) ==
    {Failure} \cup (IF f.readable THEN {Extracted(b) : b \in SheetBatches} ELSE {})

\* strings.ToUpper
ToUpperChar(c) ==
    IF c \in LowerSet
    THEN UpperChars[CHOOSE i \in DOMAIN LowerChars : LowerChars[i] = c]
    ELSE c

ToUpper(s) == [i \in DOMAIN s |-> ToUpperChar(s[i])]

\* the lines the scan of ExtractFromDump recognizes as INSERT INTO statements
\* and skips
InsertLines(content) ==
    SelectSeq(Split(content, "\n"),
              LAMBDA line : LET text == TrimSpace(ToUpper(line))
                                word == <<"I", "N", "S", "E", "R", "T", " ", "I", "N", "T", "O">>
                            IN  Len(text) >= Len(word) /\ SubSeq(text, 1, Len(word)) = word)

\* an extractor that makes a record of every INSERT INTO line
ExtractFromDump_parsingInserts(f) ==
    IF ~f.readable THEN Failure
    ELSE Extracted([i \in DOMAIN InsertLines(f.content) |->
                       [k \in {<<"l", "i", "n", "e">>} |-> TextV(InsertLines(f.content)[i])]])

\* ExtractFromDump: no record, whatever the file holds
ExtractFromDump(f) == IF ~f.readable THEN Failure ELSE Extracted(<<>>)

\* an extractor and what it returned
Via(extractor, result) == [via |-> extractor, err |-> result.err, data |-> result.data]

\* a dispatch that tries the delimited-text extractor on an unknown format
ExtractFromFileResults_fallingBack(f) ==
    LET format == GetFileFormat(f)
    IN  IF format \in {CSV, Unknown} THEN {Via("ExtractFromCSV", ExtractFromCSV(f))}
        ELSE IF format = JSON THEN {Via("ExtractFromJSON", ExtractFromJSON(f))}
        ELSE IF format = XLSX THEN {Via("ExtractFromXLSX", r) : r \in ExtractFromXLSX(f)}
        ELSE IF format = XLS THEN {Via("ExtractFromXLS", r) : r \in ExtractFromXLS(f)}
        ELSE IF format \in {DUMP, SQL} THEN {Via("ExtractFromDump", ExtractFromDump(f))}
        ELSE {Via("", Failure)}

\* ExtractFromFile on the file f behind filePath: the extractor of the format
\* and what it can return; no extractor and an error for the other formats
ExtractFromFileResults(f) ==
    LET format == GetFileFormat(f)
    IN  IF format = CSV THEN {Via("ExtractFromCSV", ExtractFromCSV(f))}
        ELSE IF format = JSON THEN {Via("ExtractFromJSON", ExtractFromJSON(f))}
        ELSE IF format = XLSX THEN {Via("ExtractFromXLSX", r) : r \in ExtractFromXLSX(f)}
        ELSE IF format = XLS THEN {Via("ExtractFromXLS", r) : r \in ExtractFromXLS(f)}
        ELSE IF format \in {DUMP, SQL} THEN {Via("ExtractFromDump", ExtractFromDump(f))}
        ELSE {Via("", Failure)}

\* ------------------------------------------------------------ the processes
Procs == {"p1", "p2"}

VARIABLES
    pc,       \* position of each invocation
    source,   \* "file" or "sql" once the invocation has dispatched, "" before
    data,     \* the extracted batch
    insCols,  \* originalColumnNames of LoadToPostgreSQL
    idx,      \* index of the next record of the insert loop
    log,      \* the calls each invocation has made on the services, in order
    tables,   \* warehouse: table name -> table
    views,    \* warehouse: view name -> the query the view is defined as
    objects,  \* object store, bucket raw: object name -> document
    file,     \* the source file of the invocations: path and what is stored there
    analysis, \* analysis of CreateStarSchemaViews, per invocation
    reach,    \* per service, the answers it can give a call: TRUE, an error: FALSE
    calc      \* a function of the program under evaluation: argument and results

vars == <<pc, source, data, insCols, idx, log, tables, views, objects, file, analysis, reach, calc>>

Final == {"exit0", "exit1"}

\* fileName of ProcessETLFromFile and of ProcessETLFromSQL
FileNameOf(src) ==
    IF src = "file" THEN <<"r", "a", "w", "_">> \o Base(file.path)
    ELSE <<"r", "a", "w", "_", "s", "q", "l", "_">> \o Query

\* a file of the file system: its path, its bytes, and whether it can be opened
File(path, content, readable) == [path |-> path, content |-> content, readable |-> readable]

\* the file at ETL_SOURCE_FILE when only the batch it yields matters
SourceFile == File(FilePath, <<>>, TRUE)

\* analysis before AnalyzeColumnsWithLLM has returned a result
NoAnalysis == [table_name |-> <<>>, dimensions |-> <<>>, facts |-> <<>>, relationships |-> <<>>]

\* no function under evaluation
NoCalc == [fn |-> "", arg |-> <<>>, rets |-> <<>>]

\* one call of an invocation: the step, whether it returned without error,
\* whether the service itself failed, the record and the table it concerned,
\* and whether that table existed before the call
Call(step, ok, env, rec, tbl, existed) ==
    [step |-> step, ok |-> ok, env |-> env, rec |-> rec, tbl |-> tbl, existed |-> existed,
     id |-> NULL]

\* a successful insert, with the surrogate key the warehouse gave the row
Inserted(rec, tbl, id) == [Call("insert", TRUE, FALSE, rec, tbl, TRUE) EXCEPT !.id = id]

\* services that can fail at any call: the warehouse behind db, the object
\* store behind minioClient
MayFail == [db |-> BOOLEAN, minio |-> BOOLEAN]

\* the answers of a service that is reachable for the whole invocation, and of
\* one that is not
Reachable == {TRUE}
Unreachable == {FALSE}

\* whether the service itself fails a call it would otherwise accept
EnvFails(service) == {~answer : answer \in reach[service]}

\* the invocations before main has run, on empty stores
Started ==
    /\ pc = [p \in Procs |-> "main"]
    /\ source = [p \in Procs |-> ""]
    /\ data = [p \in Procs |-> <<>>]
    /\ insCols = [p \in Procs |-> <<>>]
    /\ idx = [p \in Procs |-> 0]
    /\ log = [p \in Procs |-> <<>>]
    /\ analysis = [p \in Procs |-> NoAnalysis]
    /\ tables = <<>>
    /\ views = <<>>
    /\ objects = <<>>

Init ==
    /\ Started
    /\ file = SourceFile
    /\ reach = MayFail
    /\ calc = NoCalc

\* a start that waits for the warehouse instead of giving up
NewETLService_waiting(p) ==
    /\ pc[p] = "main"
    /\ \E ok \in reach.db :
          /\ pc' = [pc EXCEPT ![p] = IF ok THEN "dispatch" ELSE "waiting"]
          /\ log' = [log EXCEPT ![p] = Append(@, Call("connect", ok, ~ok, 0, <<>>, FALSE))]
    /\ UNCHANGED <<reach, file, analysis, calc, source, data, insCols, idx, tables, views, objects>>

\* main: NewETLService fails -> log.Fatalf
NewETLService(p) ==
    /\ pc[p] = "main"
    /\ \E ok \in reach.db :
          /\ pc' = [pc EXCEPT ![p] = IF ok THEN "dispatch" ELSE "exit1"]
          /\ log' = [log EXCEPT ![p] = Append(@, Call("connect", ok, ~ok, 0, <<>>, FALSE))]
    /\ UNCHANGED <<reach, file, analysis, calc, source, data, insCols, idx, tables, views, objects>>

\* main with neither a source type nor a known command: log.Fatal
NoSource(p) ==
    /\ pc[p] = "dispatch"
    /\ pc' = [pc EXCEPT ![p] = "exit1"]
    /\ UNCHANGED <<reach, file, analysis, calc, source, data, insCols, idx, log, tables, views, objects>>

\* main with the command email-test: the configuration is loaded and the test
\* mail is sent, or one of the two fails -> log.Fatalf; no call on the stores
EmailTest(p) ==
    /\ pc[p] = "dispatch"
    /\ \E sent \in BOOLEAN : pc' = [pc EXCEPT ![p] = IF sent THEN "exit0" ELSE "exit1"]
    /\ UNCHANGED <<reach, file, analysis, calc, source, data, insCols, idx, log, tables, views, objects>>

\* ProcessETLFromFile / ProcessETLFromSQL up to the extraction: the source
\* decides whether the extraction fails and which batch it delivers
Extract(p, src, batches) ==
    /\ pc[p] = "dispatch"
    /\ source' = [source EXCEPT ![p] = src]
    /\ \/ /\ pc' = [pc EXCEPT ![p] = "exit1"]
          /\ log' = [log EXCEPT ![p] = Append(@, Call("extract", FALSE, TRUE, 0, <<>>, FALSE))]
          /\ UNCHANGED data
       \/ \E batch \in batches :
             /\ data' = [data EXCEPT ![p] = batch]
             /\ pc' = [pc EXCEPT ![p] = "transform"]
             /\ log' = [log EXCEPT ![p] = Append(@, Call("extract", TRUE, FALSE, 0, <<>>, FALSE))]
    /\ UNCHANGED <<reach, file, analysis, calc, insCols, idx, tables, views, objects>>

ExtractFromFile(p, batches) == Extract(p, "file", batches)

ExtractFromSQL(p, batches) == Extract(p, "sql", batches)

\* the calls of one GetFileFormat: the read of the file by
\* identifyFormatByContent, if it is made, and the format returned
DetectCalls(f) ==
    (IF ReadsContent(f) THEN <<Call("sniff", f.readable, ~f.readable, 0, <<>>, FALSE)>>
     ELSE <<>>)
        \o <<Call("detect", TRUE, FALSE, GetFileFormat(f), <<>>, FALSE)>>

\* ProcessETLFromFile up to the extraction, on the file of the file system:
\* GetFileFormat for the log line, then ExtractFromFile with its own
\* GetFileFormat and the extractor of the format
ProcessETLFromFile(p) ==
    /\ pc[p] = "dispatch"
    /\ source' = [source EXCEPT ![p] = "file"]
    /\ \E out \in ExtractFromFileResults(file) :
          /\ log' = [log EXCEPT ![p] =
                        @ \o DetectCalls(file) \o DetectCalls(file)
                          \o (IF out.via = "" THEN <<>>
                              ELSE <<Call(out.via, ~out.err, out.err, 0, <<>>, FALSE)>>)
                          \o <<Call("extract", ~out.err, out.err, 0, <<>>, FALSE)>>]
          /\ data' = [data EXCEPT ![p] = IF out.err THEN @ ELSE out.data]
          /\ pc' = [pc EXCEPT ![p] = IF out.err THEN "exit1" ELSE "transform"]
    /\ UNCHANGED <<reach, file, analysis, calc, insCols, idx, tables, views, objects>>

\* Transform: fmt.Sprintf("%v", v) of a string is the string itself
TransformValue(value) == value

TransformRecords(batch) ==
    [i \in DOMAIN batch |-> [k \in DOMAIN batch[i] |-> TransformValue(batch[i][k])]]

\* a transform after which the warehouse is loaded without an archive write
Transform_skippingArchive(p) ==
    /\ pc[p] = "transform"
    /\ data' = [data EXCEPT ![p] = TransformRecords(@)]
    /\ pc' = [pc EXCEPT ![p] = "load"]
    /\ log' = [log EXCEPT ![p] = Append(@, Call("transform", TRUE, FALSE, 0, <<>>, FALSE))]
    /\ UNCHANGED <<reach, file, analysis, calc, source, insCols, idx, tables, views, objects>>

Transform(p) ==
    /\ pc[p] = "transform"
    /\ data' = [data EXCEPT ![p] = TransformRecords(@)]
    /\ pc' = [pc EXCEPT ![p] = "archive"]
    /\ log' = [log EXCEPT ![p] = Append(@, Call("transform", TRUE, FALSE, 0, <<>>, FALSE))]
    /\ UNCHANGED <<reach, file, analysis, calc, source, insCols, idx, tables, views, objects>>

\* LoadToMinIO whose caller only reports the error and goes on
LoadToMinIO_ignoringError(p) ==
    /\ pc[p] = "archive"
    /\ \E ok \in reach.minio :
          /\ objects' = IF ok
                        THEN (ObjectName(FileNameOf(source[p])) :> data[p]) @@ objects
                        ELSE objects
          /\ pc' = [pc EXCEPT ![p] = "load"]
          /\ log' = [log EXCEPT ![p] = Append(@, Call("archive", ok, ~ok, 0, <<>>, FALSE))]
    /\ UNCHANGED <<reach, file, analysis, calc, source, data, insCols, idx, tables, views>>

\* LoadToMinIO and the caller's check of its result
LoadToMinIO(p) ==
    /\ pc[p] = "archive"
    /\ \E ok \in reach.minio :
          /\ objects' = IF ok
                        THEN (ObjectName(FileNameOf(source[p])) :> data[p]) @@ objects
                        ELSE objects
          /\ pc' = [pc EXCEPT ![p] = IF ok THEN "load" ELSE "exit1"]
          /\ log' = [log EXCEPT ![p] = Append(@, Call("archive", ok, ~ok, 0, <<>>, FALSE))]
    /\ UNCHANGED <<reach, file, analysis, calc, source, data, insCols, idx, tables, views>>

\* LoadToPostgreSQL on an empty batch: returns nil at once
LoadEmpty(p) ==
    /\ pc[p] = "load"
    /\ data[p] = <<>>
    /\ pc' = [pc EXCEPT ![p] = "exit0"]
    /\ log' = [log EXCEPT ![p] = Append(@, Call("load", TRUE, FALSE, 0, <<>>, FALSE))]
    /\ UNCHANGED <<reach, file, analysis, calc, source, data, insCols, idx, tables, views, objects>>

\* CreateTableIfNotExists whose failure is only reported: the insert loop runs
CreateTableIfNotExists_goingOn(p) ==
    /\ pc[p] = "load"
    /\ data[p] # <<>>
    /\ LET tableName == LoadTableName(Len(data[p]))
           name      == SanitizeTableName(tableName)
           def       == ColumnsDef(data[p])
           existed   == name \in DOMAIN tables
           rejected  == CreateTableRejected(tables, name, def)
       IN  \E env \in (IF rejected THEN {FALSE} ELSE EnvFails("db")) :
              LET ok == ~env /\ ~rejected
              IN  /\ log' = [log EXCEPT ![p] =
                                @ \o <<Call("load", TRUE, FALSE, 0, <<>>, FALSE),
                                       Call("create", ok, env, 0, name, existed)>>]
                  /\ tables' = IF ok THEN ExecCreateTable(tables, name, def) ELSE tables
                  /\ \E order \in Orders(DOMAIN data[p][1]) :
                        insCols' = [insCols EXCEPT ![p] = order]
                  /\ idx' = [idx EXCEPT ![p] = 1]
                  /\ pc' = [pc EXCEPT ![p] = "insert"]
    /\ UNCHANGED <<reach, file, analysis, calc, source, data, views, objects>>

\* CreateTableIfNotExists whose failure undoes the archive write
CreateTableIfNotExists_undoingArchive(p) ==
    /\ pc[p] = "load"
    /\ data[p] # <<>>
    /\ LET tableName == LoadTableName(Len(data[p]))
           name      == SanitizeTableName(tableName)
           def       == ColumnsDef(data[p])
           existed   == name \in DOMAIN tables
           rejected  == CreateTableRejected(tables, name, def)
           kept      == DOMAIN objects \ {ObjectName(FileNameOf(source[p]))}
       IN  \E env \in (IF rejected THEN {FALSE} ELSE EnvFails("db")) :
              LET ok == ~env /\ ~rejected
              IN  /\ log' = [log EXCEPT ![p] =
                                @ \o <<Call("load", TRUE, FALSE, 0, <<>>, FALSE),
                                       Call("create", ok, env, 0, name, existed)>>]
                  /\ IF ok
                     THEN /\ tables' = ExecCreateTable(tables, name, def)
                          /\ \E order \in Orders(DOMAIN data[p][1]) :
                                insCols' = [insCols EXCEPT ![p] = order]
                          /\ idx' = [idx EXCEPT ![p] = 1]
                          /\ pc' = [pc EXCEPT ![p] = "insert"]
                          /\ UNCHANGED objects
                     ELSE /\ pc' = [pc EXCEPT ![p] = "exit1"]
                          /\ objects' = [o \in kept |-> objects[o]]
                          /\ UNCHANGED <<tables, insCols, idx>>
    /\ UNCHANGED <<reach, file, analysis, calc, source, data, views>>

\* LoadToPostgreSQL up to the insert loop: CreateTableIfNotExists and, when
\* it succeeded, the column list of the INSERT from the first record
CreateTableIfNotExists(p) ==
    /\ pc[p] = "load"
    /\ data[p] # <<>>
    /\ LET tableName == LoadTableName(Len(data[p]))
           name      == SanitizeTableName(tableName)
           def       == ColumnsDef(data[p])
           existed   == name \in DOMAIN tables
           rejected  == CreateTableRejected(tables, name, def)
       IN  \E env \in (IF rejected THEN {FALSE} ELSE EnvFails("db")) :
              LET ok == ~env /\ ~rejected
              IN  /\ log' = [log EXCEPT ![p] =
                                @ \o <<Call("load", TRUE, FALSE, 0, <<>>, FALSE),
                                       Call("create", ok, env, 0, name, existed)>>]
                  /\ IF ok
                     THEN /\ tables' = ExecCreateTable(tables, name, def)
                          /\ \E order \in Orders(DOMAIN data[p][1]) :
                                insCols' = [insCols EXCEPT ![p] = order]
                          /\ idx' = [idx EXCEPT ![p] = 1]
                          /\ pc' = [pc EXCEPT ![p] = "insert"]
                     ELSE /\ pc' = [pc EXCEPT ![p] = "exit1"]
                          /\ UNCHANGED <<tables, insCols, idx>>
    /\ UNCHANGED <<reach, file, analysis, calc, source, data, views, objects>>

\* values bound in the reverse of the column order
InsertValues_reversed(record, originalColumnNames) ==
    LET n == Len(originalColumnNames)
    IN  [i \in DOMAIN originalColumnNames |->
            IF originalColumnNames[n + 1 - i] \in DOMAIN record
            THEN record[originalColumnNames[n + 1 - i]]
            ELSE NULL]

\* values of one iteration of the insert loop: the record's value under each
\* original column name, nil where the record has no such key
InsertValues(record, originalColumnNames) ==
    [i \in DOMAIN originalColumnNames |->
        IF originalColumnNames[i] \in DOMAIN record
        THEN record[originalColumnNames[i]]
        ELSE NULL]

\* sanitizedColumnNames of LoadToPostgreSQL
SanitizedColumnNames(originalColumnNames) ==
    [i \in DOMAIN originalColumnNames |-> SanitizeColumnName(originalColumnNames[i])]

\* an insert loop that stops at the first failed insert
InsertRecord_stoppingOnError(p) ==
    /\ pc[p] = "insert"
    /\ LET tableName == LoadTableName(Len(data[p]))
           cols      == SanitizedColumnNames(insCols[p])
           values    == InsertValues(data[p][idx[p]], insCols[p])
           rejected  == InsertRejected(tables, tableName, cols)
       IN  \E env \in (IF rejected THEN {FALSE} ELSE EnvFails("db")) :
              LET ok == ~env /\ ~rejected
              IN  /\ log' = [log EXCEPT ![p] =
                                Append(@, IF ok
                                          THEN Inserted(idx[p], tableName,
                                                   NewRow(tables[tableName], cols, values)[IdCol])
                                          ELSE Call("insert", FALSE, env, idx[p], tableName, TRUE))]
                  /\ tables' = IF ok THEN ExecInsert(tables, tableName, cols, values)
                               ELSE tables
                  /\ pc' = [pc EXCEPT ![p] =
                               IF idx[p] = Len(data[p]) \/ ~ok THEN "analyze" ELSE "insert"]
    /\ idx' = [idx EXCEPT ![p] = @ + 1]
    /\ UNCHANGED <<reach, file, analysis, calc, source, data, insCols, views, objects>>

\* an insert loop whose first failed insert is returned as the error of
\* LoadToPostgreSQL
InsertRecord_fatal(p) ==
    /\ pc[p] = "insert"
    /\ LET tableName == LoadTableName(Len(data[p]))
           cols      == SanitizedColumnNames(insCols[p])
           values    == InsertValues(data[p][idx[p]], insCols[p])
           rejected  == InsertRejected(tables, tableName, cols)
       IN  \E env \in (IF rejected THEN {FALSE} ELSE EnvFails("db")) :
              LET ok == ~env /\ ~rejected
              IN  /\ log' = [log EXCEPT ![p] =
                                Append(@, IF ok
                                          THEN Inserted(idx[p], tableName,
                                                   NewRow(tables[tableName], cols, values)[IdCol])
                                          ELSE Call("insert", FALSE, env, idx[p], tableName, TRUE))]
                  /\ tables' = IF ok THEN ExecInsert(tables, tableName, cols, values)
                               ELSE tables
                  /\ pc' = [pc EXCEPT ![p] =
                               IF ~ok THEN "exit1"
                               ELSE IF idx[p] = Len(data[p]) THEN "analyze" ELSE "insert"]
    /\ idx' = [idx EXCEPT ![p] = @ + 1]
    /\ UNCHANGED <<reach, file, analysis, calc, source, data, insCols, views, objects>>

\* one iteration of the insert loop of LoadToPostgreSQL
InsertRecord(p) ==
    /\ pc[p] = "insert"
    /\ LET tableName == LoadTableName(Len(data[p]))
           cols      == SanitizedColumnNames(insCols[p])
           values    == InsertValues(data[p][idx[p]], insCols[p])
           rejected  == InsertRejected(tables, tableName, cols)
       IN  \E env \in (IF rejected THEN {FALSE} ELSE EnvFails("db")) :
              LET ok == ~env /\ ~rejected
              IN  /\ log' = [log EXCEPT ![p] =
                                Append(@, IF ok
                                          THEN Inserted(idx[p], tableName,
                                                   NewRow(tables[tableName], cols, values)[IdCol])
                                          ELSE Call("insert", FALSE, env, idx[p], tableName, TRUE))]
                  /\ tables' = IF ok THEN ExecInsert(tables, tableName, cols, values)
                               ELSE tables
    /\ idx' = [idx EXCEPT ![p] = @ + 1]
    /\ pc' = [pc EXCEPT ![p] = IF idx[p] = Len(data[p]) THEN "analyze" ELSE "insert"]
    /\ UNCHANGED <<reach, file, analysis, calc, source, data, insCols, views, objects>>

\* the words of the classifier
DimensionWords ==
    {<<"n", "a", "m", "e">>, <<"d", "e", "s", "c">>,
     <<"c", "a", "t", "e", "g", "o", "r", "y">>, <<"t", "y", "p", "e">>,
     <<"d", "a", "t", "e">>}

FactWords ==
    {<<"a", "m", "o", "u", "n", "t">>, <<"p", "r", "i", "c", "e">>,
     <<"q", "u", "a", "n", "t", "i", "t", "y">>, <<"c", "o", "u", "n", "t">>,
     <<"t", "o", "t", "a", "l">>}

HasDimensionWord(colName) == \E w \in DimensionWords : Contains(ToLower(colName), w)

HasFactWord(colName) == \E w \in FactWords : Contains(ToLower(colName), w)

\* a classifier that looks for the fact words first
ColumnAnalysisResult_factsFirst(tableName, columns) ==
    [table_name    |-> tableName,
     dimensions    |-> [c \in {d \in Range(columns) : HasDimensionWord(d) /\ ~HasFactWord(d)} |->
                           "dimension"],
     facts         |-> SelectSeq(columns, HasFactWord),
     relationships |-> <<>>]

\* result of AnalyzeColumnsWithLLM for the columns the catalog query returned,
\* in their order
ColumnAnalysisResult(tableName, columns) ==
    [table_name    |-> tableName,
     dimensions    |-> [c \in {d \in Range(columns) : HasDimensionWord(d)} |-> "dimension"],
     facts         |-> SelectSeq(columns, LAMBDA c : ~HasDimensionWord(c) /\ HasFactWord(c)),
     relationships |-> <<>>]

\* the rows the catalog can return for a table: its columns in the order of
\* the CREATE TABLE statement, which ranges over a map, the surrogate key last
CatalogColumns(tbl) == {Append(order, IdCol) : order \in Orders(DOMAIN tbl.cols \ {IdCol})}

\* a classification whose failure is ignored: the view statement is issued
AnalyzeColumnsWithLLM_ignoringError(p) ==
    /\ pc[p] = "analyze"
    /\ LET tableName == LoadTableName(Len(data[p]))
       IN  \E ok \in reach.db :
              /\ log' = [log EXCEPT ![p] =
                            Append(@, Call("analyze", ok, ~ok, 0, tableName, TRUE))]
              /\ pc' = [pc EXCEPT ![p] = "view"]
              /\ IF ok
                 THEN \E result \in {ColumnAnalysisResult(tableName, columns) :
                                         columns \in CatalogColumns(tables[tableName])} :
                         analysis' = [analysis EXCEPT ![p] = result]
                 ELSE UNCHANGED analysis
    /\ UNCHANGED <<reach, file, calc, source, data, insCols, idx, tables, views, objects>>

\* CreateStarSchemaViews, first half: the catalog query of
\* AnalyzeColumnsWithLLM and the classification of its rows; on its failure
\* LoadToPostgreSQL logs a warning and returns nil
AnalyzeColumnsWithLLM(p) ==
    /\ pc[p] = "analyze"
    /\ LET tableName == LoadTableName(Len(data[p]))
       IN  \E ok \in reach.db :
              /\ log' = [log EXCEPT ![p] =
                            Append(@, Call("analyze", ok, ~ok, 0, tableName, TRUE))]
              /\ pc' = [pc EXCEPT ![p] = IF ok THEN "view" ELSE "exit0"]
              /\ IF ok
                 THEN \E result \in {ColumnAnalysisResult(tableName, columns) :
                                         columns \in CatalogColumns(tables[tableName])} :
                         analysis' = [analysis EXCEPT ![p] = result]
                 ELSE UNCHANGED analysis
    /\ UNCHANGED <<reach, file, calc, source, data, insCols, idx, tables, views, objects>>

\* a view that projects the columns the classifier tagged
StarViewQuery_fromAnalysis(tableName, result) ==
    [columns |-> result.facts \o (CHOOSE order \in Orders(DOMAIN result.dimensions) : TRUE),
     from    |-> tableName]

\* query of CreateStarSchemaViews: SELECT * FROM <tableName>, whatever the
\* analysis holds
StarViewQuery(tableName, result) == [columns |-> <<"*">>, from |-> tableName]

\* what the warehouse returns for SELECT * FROM <view>
ViewRows(viewName) ==
    LET query == views[viewName]
        rows  == tables[query.from].rows
    IN  IF query.columns = <<"*">> THEN rows
        ELSE [i \in DOMAIN rows |-> [c \in Range(query.columns) |-> rows[i][c]]]

\* a view statement whose failure LoadToPostgreSQL returns to its caller
CreateStarSchemaViews_fatal(p) ==
    /\ pc[p] = "view"
    /\ LET tableName == LoadTableName(Len(data[p]))
           rejected  == tableName \notin DOMAIN tables
       IN  \E env \in (IF rejected THEN {FALSE} ELSE EnvFails("db")) :
              LET ok == ~env /\ ~rejected
              IN  /\ log' = [log EXCEPT ![p] =
                                Append(@, Call("view", ok, env, 0, tableName, TRUE))]
                  /\ views' = IF ok
                              THEN (ViewName(tableName) :>
                                       StarViewQuery(tableName, analysis[p])) @@ views
                              ELSE views
                  /\ pc' = [pc EXCEPT ![p] = IF ok THEN "exit0" ELSE "exit1"]
    /\ UNCHANGED <<reach, file, analysis, calc, source, data, insCols, idx, tables, objects>>

\* CreateStarSchemaViews, second half: CREATE OR REPLACE VIEW <t>_star_view
\* AS SELECT * FROM <t>; on its failure LoadToPostgreSQL logs a warning and
\* returns nil as well
CreateStarSchemaViews(p) ==
    /\ pc[p] = "view"
    /\ LET tableName == LoadTableName(Len(data[p]))
           rejected  == tableName \notin DOMAIN tables
       IN  \E env \in (IF rejected THEN {FALSE} ELSE EnvFails("db")) :
              LET ok == ~env /\ ~rejected
              IN  /\ log' = [log EXCEPT ![p] =
                                Append(@, Call("view", ok, env, 0, tableName, TRUE))]
                  /\ views' = IF ok
                              THEN (ViewName(tableName) :>
                                       StarViewQuery(tableName, analysis[p])) @@ views
                              ELSE views
    /\ pc' = [pc EXCEPT ![p] = "exit0"]
    /\ UNCHANGED <<reach, file, analysis, calc, source, data, insCols, idx, tables, objects>>

\* the steps of one invocation after its extraction
Run(p) ==
    \/ NewETLService(p)
    \/ NoSource(p)
    \/ EmailTest(p)
    \/ Transform(p)
    \/ LoadToMinIO(p)
    \/ LoadEmpty(p)
    \/ CreateTableIfNotExists(p)
    \/ InsertRecord(p)
    \/ AnalyzeColumnsWithLLM(p)
    \/ CreateStarSchemaViews(p)

\* one invocation, of a file or of a query, against empty stores
Next ==
    \/ Run("p1")
    \/ ExtractFromFile("p1", Batches(MaxBatch))
    \/ ExtractFromSQL("p1", Batches(MaxBatch))

Spec == Init /\ [][Next]_vars

\* the invocation is the only thread of its process and every external call
\* returns: a step that can be taken is taken
SpecFair == Spec /\ WF_vars(Next)

\* the batches the extraction of p can deliver next to the batches the other
\* invocations have extracted
ConcBatchesLeft(p) ==
    LET others == CHOOSE n \in 0..ConcTotal :
                      \E q \in Procs \ {p} : n = Len(data[q])
    IN  ConcBatches(ConcTotal - others)

\* two invocations of the same file sharing the stores, interleaved in any
\* way (back to back included)
NextConc ==
    \E p \in Procs :
        \/ Run(p)
        \/ ExtractFromFile(p, ConcBatchesLeft(p))

SpecConc == Init /\ [][NextConc]_vars

\* ----------------------------------------------------- runs over given files
\* paths with each extension of GetFileFormat, one in capitals, one without
\* extension, one with an extension GetFileFormat does not know, one with a
\* dot in the directory only
Paths ==
    {<<"d", ".", "c", "s", "v">>,
     <<"D", ".", "C", "S", "V">>,
     <<"d", ".", "j", "s", "o", "n">>,
     <<"d", ".", "x", "l", "s", "x">>,
     <<"d", ".", "x", "l", "s">>,
     <<"d", ".", "d", "u", "m", "p">>,
     <<"d", ".", "t", "a", "r">>,
     <<"d", ".", "t", "a", "r", ".", "g", "z">>,
     <<"d", ".", "g", "z">>,
     <<"d", ".", "s", "q", "l">>,
     <<"d">>,
     <<"d", ".", "t", "x", "t">>,
     <<"/", "a", ".", "c", "s", "v", "/", "d">>}

\* header customer_id,customer_name and the rows (1,John) and (2,Jane)
CustomersCsv ==
    <<"c", "u", "s", "t", "o", "m", "e", "r", "_", "i", "d", ",", "c", "u",
      "s", "t", "o", "m", "e", "r", "_", "n", "a", "m", "e", "\n", "1",
      ",", "J", "o", "h", "n", "\n", "2", ",", "J", "a", "n", "e", "\n">>

\* a structured document of more than SniffLen bytes
LargeJson == <<"[">> \o [i \in 1..SniffLen |-> " "] \o <<"]">>

\* header a,b and no row
HeaderOnlyCsv == <<"a", ",", "b", "\n">>

\* header a,b and the row (1), one cell short
ShortRowCsv == <<"a", ",", "b", "\n", "1", "\n">>

\* a dump of two lines: a comment and an INSERT INTO statement
InsertDump ==
    <<"-", "-", "\n", "I", "N", "S", "E", "R", "T", " ", "I", "N", "T", "O", " ",
      "t", " ", "V", "A", "L", "U", "E", "S", " ", "(", "1", ")", ";", "\n">>

\* one object whose keys differ in the case of a letter only
CollidingJson ==
    <<"[", "{", "\"", "a", "\"", ":", "1", ",", "\"", "A", "\"", ":", "2", "}", "]">>

\* contents: delimited text (two rows, no row, a short row), a structured
\* document, a large one, one with colliding keys, the zip local-file
\* signature, the compound-binary signature, a statement, a dump, plain text,
\* nothing
Contents ==
    {CustomersCsv,
     HeaderOnlyCsv,
     ShortRowCsv,
     InsertDump,
     CollidingJson,
     <<"[", "{", "\"", "a", "\"", ":", "1", "}", "]">>,
     LargeJson,
     <<"P", "K", "03", "04">>,
     <<"D0", "CF", "11", "E0", "A1", "B1", "1A", "E1">>,
     <<"S", "E", "L", "E", "C", "T", " ", "1">>,
     <<"h", "e", "l", "l", "o">>,
     <<>>}

Files == {File(path, content, readable) :
             path \in Paths, content \in Contents, readable \in BOOLEAN}

InitFile ==
    /\ Started
    /\ file \in Files
    /\ reach = MayFail
    /\ calc = NoCalc

\* one invocation of the file of the file system, against empty stores
NextFile ==
    \/ Run("p1")
    \/ ProcessETLFromFile("p1")

SpecFile == InitFile /\ [][NextFile]_vars

\* ------------------------------------- runs with services up or down throughout
\* one invocation of a file while each service is either reachable for the
\* whole invocation or not at all
InitNet ==
    /\ Started
    /\ file \in Files
    /\ reach \in [{"db", "minio"} -> {Reachable, Unreachable}]
    /\ calc = NoCalc

NextNet == NextFile

SpecNet == InitNet /\ [][NextNet]_vars

\* ------------------------------------------------- the sanitizers by themselves
\* the variables of the invocations and of the stores
pipeline == <<pc, source, data, insCols, idx, log, tables, views, objects, file, analysis, reach>>

\* characters of names: a lower-case letter, an upper-case letter, a digit, the
\* underscore and a character outside [a-z0-9_]
NameChars == {"a", "Z", "1", "_", "-"}

\* a name of n characters that starts with first
LongName(first, n) == [i \in 1..n |-> IF i = 1 THEN first ELSE "x"]

\* names given to the sanitizers: all short ones, and names around the
\* identifier limit that start with a letter, a digit or an underscore
Names ==
    SeqsUpTo(NameChars, MaxNameLen)
        \cup {LongName(c, n) : c \in {"a", "1", "_"},
                               n \in (MaxIdentLen - 2)..(MaxIdentLen + 2)}

\* the argument of the next application: the name, then the last result
NextArg == IF calc.rets = <<>> THEN calc.arg ELSE calc.rets[Len(calc.rets)]

InitSanitize ==
    /\ Started
    /\ file = SourceFile
    /\ reach = MayFail
    /\ calc \in {[fn |-> "", arg |-> name, rets |-> <<>>] : name \in Names}

\* SanitizeTableName applied to the name, and once more to its result
CallSanitizeTableName ==
    /\ calc.fn \in {"", "SanitizeTableName"}
    /\ Len(calc.rets) < 2
    /\ calc' = [calc EXCEPT !.fn = "SanitizeTableName",
                            !.rets = Append(@, SanitizeTableName(NextArg))]
    /\ UNCHANGED pipeline

\* SanitizeColumnName applied to the name, and once more to its result
CallSanitizeColumnName ==
    /\ calc.fn \in {"", "SanitizeColumnName"}
    /\ Len(calc.rets) < 2
    /\ calc' = [calc EXCEPT !.fn = "SanitizeColumnName",
                            !.rets = Append(@, SanitizeColumnName(NextArg))]
    /\ UNCHANGED pipeline

NextSanitize == CallSanitizeTableName \/ CallSanitizeColumnName

SpecSanitize == InitSanitize /\ [][NextSanitize]_vars

\* ------------------------------------------------- type inference by itself
\* values of a sampled column: nil, an integer, a float, a boolean, and texts
\* on both sides of each condition of the date test
SampleValues ==
    {NULL, IntV(1), FloatV(1), BoolV(TRUE),
     TextV(<<"x">>),
     TextV(<<"2", "0">>),
     TextV(<<"a", "b", "c", "d", "e", "f", "g", "h">>),
     TextV(<<"2", "0", "2", "4", "-", "0", "1", "-", "0", "1">>)}

InitInfer ==
    /\ Started
    /\ file = SourceFile
    /\ reach = MayFail
    /\ calc \in {[fn |-> "", arg |-> values, rets |-> <<>>] :
                    values \in SeqsUpTo(SampleValues, MaxSample)}

CallInferColumnType ==
    /\ calc.fn = ""
    /\ calc' = [calc EXCEPT !.fn = "InferColumnType",
                            !.rets = <<InferColumnType(calc.arg)>>]
    /\ UNCHANGED pipeline

NextInfer == CallInferColumnType

SpecInfer == InitInfer /\ [][NextInfer]_vars

\* ----------------------------------------------------- the classifier by itself
CustomerName == <<"c", "u", "s", "t", "o", "m", "e", "r", "_", "n", "a", "m", "e">>
TotalAmount == <<"t", "o", "t", "a", "l", "_", "a", "m", "o", "u", "n", "t">>
OrderDate == <<"o", "r", "d", "e", "r", "_", "d", "a", "t", "e">>

\* column names the catalog returns: names with a dimension word, with a fact
\* word (one of them capitalised), with both, with neither
ColumnNames ==
    {CustomerName, TotalAmount, OrderDate,
     <<"t", "y", "p", "e", "_", "c", "o", "u", "n", "t">>,
     <<"P", "r", "i", "c", "e">>,
     IdCol}

InitClassify ==
    /\ Started
    /\ file = SourceFile
    /\ reach = MayFail
    /\ calc \in {[fn |-> "", arg |-> columns, rets |-> <<>>] :
                    columns \in SeqsUpTo(ColumnNames, MaxColumns)}

\* AnalyzeColumnsWithLLM on the rows the catalog query returned
CallAnalyzeColumnsWithLLM ==
    /\ calc.fn = ""
    /\ calc' = [calc EXCEPT !.fn = "AnalyzeColumnsWithLLM",
                            !.rets = <<ColumnAnalysisResult(LoadTableName(1), calc.arg)>>]
    /\ UNCHANGED pipeline

NextClassify == CallAnalyzeColumnsWithLLM

SpecClassify == InitClassify /\ [][NextClassify]_vars

\* ------------------------------------------------ schema inference by itself
\* records of long batches: an integer, a float, an integer next to a text
\* under a second key, no key at all
SchemaRecords ==
    {[k \in {<<"a">>} |-> IntV(1)],
     [k \in {<<"a">>} |-> FloatV(1)],
     [k \in {<<"a">>, <<"B">>} |-> IF k = <<"a">> THEN IntV(1) ELSE TextV(<<"x">>)],
     <<>>}

\* batches around the sample limit: one record repeated up to the limit or
\* one short of it, then up to MaxTail records of any sort
SchemaBatches ==
    {[i \in 1..n |-> r] \o tail :
        r \in SchemaRecords,
        n \in {SampleLimit - 1, SampleLimit},
        tail \in SeqsUpTo(SchemaRecords, MaxTail)}

InitSchema ==
    /\ Started
    /\ file = SourceFile
    /\ reach = MayFail
    /\ calc \in {[fn |-> "", arg |-> batch, rets |-> <<>>] : batch \in SchemaBatches}

\* CreateTableIfNotExists up to its statement: the columns of the batch
CallCreateTableIfNotExists ==
    /\ calc.fn = ""
    /\ calc' = [calc EXCEPT !.fn = "CreateTableIfNotExists",
                            !.rets = <<ColumnsDef(calc.arg)>>]
    /\ UNCHANGED pipeline

NextSchema == CallCreateTableIfNotExists

SpecSchema == InitSchema /\ [][NextSchema]_vars

\* ------------------------------------------------------------------ claims
\* positions of the calls of one step in the log of an invocation
Steps(p, step) == {i \in DOMAIN log[p] : log[p][i].step = step}

Failed(p, step) == \E i \in Steps(p, step) : ~log[p][i].ok

Succeeded(p, step) == \E i \in Steps(p, step) : log[p][i].ok

WarehouseSteps == {"create", "insert", "analyze", "view"}

LastCall(p) == log[p][Len(log[p])]

C2_ArchiveWrittenBeforeWarehouse ==
    \A p \in Procs :
        \A i \in DOMAIN log[p] :
            log[p][i].step \in WarehouseSteps =>
                /\ \E j \in 1..(i - 1) : log[p][j].step = "archive" /\ log[p][j].ok
                /\ ObjectName(FileNameOf(source[p])) \in DOMAIN objects

C2_Witness ==
    \E p \in Procs :
        /\ pc[p] = "exit1"
        /\ Failed(p, "create")
        /\ ObjectName(FileNameOf(source[p])) \in DOMAIN objects

\* C3 (as claimed): an invocation in which the catalog query or the view
\* statement failed ends with an error.
C3_ViewFailureIsFatal ==
    \A p \in Procs :
        (pc[p] \in Final /\ (Failed(p, "analyze") \/ Failed(p, "view"))) => pc[p] = "exit1"

\* C3 (amended): a failure of CreateStarSchemaViews is only logged: the
\* invocation ends successfully right after it.
C3_ViewFailureIsWarning ==
    \A p \in Procs :
        (Failed(p, "analyze") \/ Failed(p, "view")) =>
            /\ pc[p] = "exit0"
            /\ LastCall(p).step \in {"analyze", "view"}

C3_Witness ==
    \E p \in Procs : Failed(p, "view") /\ Succeeded(p, "insert") /\ pc[p] = "exit0"

\* the calls of one step, in the order they were made
CallsOf(p, step) == SelectSeq(log[p], LAMBDA c : c.step = step)

SuccessfulInserts(p) == SelectSeq(log[p], LAMBDA c : c.step = "insert" /\ c.ok)

\* the content an insert of record i of the batch of p gives a row of table
\* tbl, the surrogate key left out
ExpectedRow(p, i, tbl) ==
    [c \in DOMAIN tbl.cols \ {IdCol} |->
        IF \E k \in DOMAIN data[p][1] : SanitizeColumnName(k) = c /\ k \in DOMAIN data[p][i]
        THEN data[p][i][CHOOSE k \in DOMAIN data[p][1] : SanitizeColumnName(k) = c]
        ELSE NULL]

WithoutId(row) == [c \in DOMAIN row \ {IdCol} |-> row[c]]

\* C4: the insert loop attempts the records once each, in batch order, whatever
\* the outcome of earlier attempts; past the loop every record has been
\* attempted; and the rows of the table are the records whose insert
\* succeeded, in that order.
C4_OneAttemptPerRecord ==
    \A p \in Procs :
        LET attempts == CallsOf(p, "insert")
            done     == SuccessfulInserts(p)
            name     == LoadTableName(Len(data[p]))
        IN  /\ \A i \in DOMAIN attempts : attempts[i].rec = i
            /\ Len(attempts) <= Len(data[p])
            /\ pc[p] = "insert" => Len(attempts) = idx[p] - 1
            /\ (pc[p] \in {"analyze", "view"} \/ Steps(p, "analyze") # {}) =>
                   Len(attempts) = Len(data[p])
            /\ Succeeded(p, "create") =>
                   /\ Len(tables[name].rows) = Len(done)
                   /\ \A j \in DOMAIN done :
                         WithoutId(tables[name].rows[j]) =
                             ExpectedRow(p, done[j].rec, tables[name])

C4_Witness ==
    \E p \in Procs :
        LET attempts == CallsOf(p, "insert")
        IN  /\ pc[p] = "exit0"
            /\ Len(attempts) = 2
            /\ ~attempts[1].ok
            /\ attempts[2].ok
            /\ Len(tables[LoadTableName(2)].rows) = 1

\* C5: a failed extraction (format detection included) or a failed table
\* creation is the last call of its invocation, which ends with an error; after
\* a failed extraction nothing is archived and no warehouse statement is
\* issued, after a failed table creation no insert and no view statement; and
\* no step is made twice.
C5_FailFast ==
    \A p \in Procs :
        /\ Failed(p, "extract") =>
              /\ pc[p] = "exit1"
              /\ LastCall(p).step = "extract"
              /\ Steps(p, "archive") = {}
              /\ \A st \in WarehouseSteps : Steps(p, st) = {}
        /\ Failed(p, "create") =>
              /\ pc[p] = "exit1"
              /\ LastCall(p).step = "create"
              /\ Steps(p, "insert") = {}
              /\ Steps(p, "analyze") = {}
              /\ Steps(p, "view") = {}
        /\ \A i, j \in DOMAIN log[p] :
              (i # j /\ log[p][i].step = log[p][j].step) =>
                  /\ log[p][i].step = "insert"
                  /\ log[p][i].rec # log[p][j].rec

C5_Witness ==
    \E p \in Procs :
        /\ Failed(p, "create")
        /\ Len(data[p]) = 2
        /\ pc[p] = "exit1"

\* C10: the column list of the INSERT is an order of the first record's keys,
\* and every row a successful insert added holds, under the column of each of
\* these keys, the record's own value under that key, NULL when the record
\* lacks the key, and NULL in every column of a key the first record lacks.
C10_BindsByFirstRecordKeys ==
    \A p \in Procs :
        LET name == LoadTableName(Len(data[p]))
            done == SuccessfulInserts(p)
        IN  Succeeded(p, "create") =>
               /\ Range(insCols[p]) = DOMAIN data[p][1]
               /\ Len(insCols[p]) = Cardinality(DOMAIN data[p][1])
               /\ \A j \in DOMAIN done :
                     LET row    == tables[name].rows[j]
                         record == data[p][done[j].rec]
                     IN  /\ \A k \in DOMAIN data[p][1] :
                               row[SanitizeColumnName(k)] =
                                   IF k \in DOMAIN record THEN record[k] ELSE NULL
                         /\ \A c \in DOMAIN row \ {IdCol} :
                               (\A k \in DOMAIN data[p][1] : SanitizeColumnName(k) # c) =>
                                   row[c] = NULL

\* both cases at once: the second record lacks a key of the first, and the
\* first record lacks a key of the second
C10_Witness ==
    \E p \in Procs :
        /\ Len(data[p]) = 2
        /\ DOMAIN data[p][1] = {<<"a">>}
        /\ DOMAIN data[p][2] = {<<"B">>}
        /\ Len(SuccessfulInserts(p)) = 2
        /\ tables[LoadTableName(2)].rows[2][<<"a">>] = NULL
        /\ tables[LoadTableName(2)].rows[2][<<"b">>] = NULL

\* the step of p is a call of CreateTableIfNotExists on a non-empty batch
IsCreateStep(p) == pc[p] = "load" /\ data[p] # <<>> /\ pc'[p] # "load"

CreatedName(p) == SanitizeTableName(LoadTableName(Len(data[p])))

\* the columns a table created from the batch of p has
SchemaOf(p) == NewTable(ColumnsDef(data[p])).cols

\* C6: a call of CreateTableIfNotExists on a table that exists with the very
\* columns the batch infers returns no error, unless the warehouse itself
\* fails, and leaves the warehouse as it was: same columns, same rows.
C6_RepeatedCreationIsNoOp ==
    [][\A p \in Procs :
          (/\ IsCreateStep(p)
           /\ CreatedName(p) \in DOMAIN tables
           /\ tables[CreatedName(p)].cols = SchemaOf(p)) =>
              /\ tables' = tables
              /\ ~log'[p][Len(log'[p])].env => log'[p][Len(log'[p])].ok]_vars

C6_Witness ==
    \E p \in Procs :
        /\ pc[p] = "insert"
        /\ idx[p] = 1
        /\ LastCall(p).step = "create"
        /\ LastCall(p).existed
        /\ LastCall(p).ok
        /\ tables[CreatedName(p)].cols = SchemaOf(p)
        /\ Len(tables[CreatedName(p)].rows) > 0

\* C7 (as claimed): a call of CreateTableIfNotExists on a table that exists
\* leaves its columns as they are and returns no error, unless the warehouse
\* itself fails, whatever schema the batch of the call infers.
C7_ExistingTableUntouchedAndCallSucceeds ==
    [][\A p \in Procs :
          (IsCreateStep(p) /\ CreatedName(p) \in DOMAIN tables) =>
              /\ CreatedName(p) \in DOMAIN tables'
              /\ tables'[CreatedName(p)].cols = tables[CreatedName(p)].cols
              /\ ~log'[p][Len(log'[p])].env => log'[p][Len(log'[p])].ok]_vars

\* the table the calls of p went to
TableOf(p) == log[p][CHOOSE i \in Steps(p, "create") : TRUE].tbl

\* C8: two invocations that reached table creation go to the same table
\* exactly if their batches have the same number of records, and the inserts
\* of an invocation go to the table it created.
C8_TableNameFromCountAlone ==
    \A p, q \in Procs :
        (Steps(p, "create") # {} /\ Steps(q, "create") # {}) =>
            /\ (Len(data[p]) = Len(data[q])) <=> (TableOf(p) = TableOf(q))
            /\ \A i \in Steps(p, "insert") : log[p][i].tbl = TableOf(p)

C8_Witness ==
    \E p, q \in Procs :
        /\ p # q
        /\ Succeeded(p, "create")
        /\ Succeeded(q, "create")
        /\ Len(data[p]) = Len(data[q])
        /\ DOMAIN data[p][1] # DOMAIN data[q][1]
        /\ TableOf(p) = TableOf(q)
        /\ Succeeded(p, "insert")

\* the successful inserts into table name: invocation and position in its log
InsertsInto(name) ==
    UNION {{<<p, i>> : i \in {j \in Steps(p, "insert") : log[p][j].ok /\ log[p][j].tbl = name}} :
              p \in Procs}

\* C9: with two invocations on the same stores, in every interleaving
\* (a) a table creation that finds the table existing fails only if the
\*     warehouse fails or if the statement would be rejected on an empty
\*     warehouse as well;
\* (b) every table was created by exactly one call and has the columns of the
\*     batch of that call;
\* (c) the rows of every table are the successful inserts of the invocations:
\*     as many rows as inserts, each insert with a row of its own that holds
\*     its record under the surrogate key the insert was given.
C9_ConcurrentLoadsKeepEveryRow ==
    /\ \A p \in Procs : \A i \in Steps(p, "create") :
          (log[p][i].existed /\ ~log[p][i].ok /\ ~log[p][i].env) =>
              CreateTableRejected(<<>>, log[p][i].tbl, ColumnsDef(data[p]))
    /\ \A name \in DOMAIN tables :
          LET tbl      == tables[name]
              creators == {p \in Procs : \E i \in Steps(p, "create") :
                              /\ log[p][i].tbl = name
                              /\ log[p][i].ok
                              /\ ~log[p][i].existed}
              inserts  == InsertsInto(name)
          IN  /\ Cardinality(creators) = 1
              /\ \A p \in creators : tbl.cols = SchemaOf(p)
              /\ Len(tbl.rows) = Cardinality(inserts)
              /\ \A r1, r2 \in DOMAIN tbl.rows :
                    r1 # r2 => tbl.rows[r1][IdCol] # tbl.rows[r2][IdCol]
              /\ \A ins \in inserts :
                    LET call == log[ins[1]][ins[2]]
                    IN  \E r \in DOMAIN tbl.rows :
                           /\ tbl.rows[r][IdCol] = call.id
                           /\ WithoutId(tbl.rows[r]) = ExpectedRow(ins[1], call.rec, tbl)

\* both invocations have loaded one record into the same table, and the row of
\* the invocation that found the table existing comes first
C9_Witness ==
    \E p, q \in Procs :
        /\ p # q
        /\ pc[p] = "exit0"
        /\ pc[q] = "exit0"
        /\ Len(data[p]) = 1
        /\ Len(data[q]) = 1
        /\ Steps(p, "create") # {}
        /\ \E i \in Steps(q, "create") : log[q][i].existed /\ log[q][i].ok
        /\ TableOf(p) = TableOf(q)
        /\ LET rows == tables[TableOf(p)].rows
           IN  /\ Len(rows) = 2
               /\ WithoutId(rows[1]) = ExpectedRow(q, 1, tables[TableOf(p)])
               /\ WithoutId(rows[2]) = ExpectedRow(p, 1, tables[TableOf(p)])
               /\ WithoutId(rows[1]) # WithoutId(rows[2])

\* the name under evaluation went through a sanitizer n times
Sanitized(n) ==
    calc.fn \in {"SanitizeTableName", "SanitizeColumnName"} /\ Len(calc.rets) >= n

\* C13: sanitizing the result of a sanitizer once more gives the same result,
\* for SanitizeTableName and for SanitizeColumnName, names that start with a
\* digit or an underscore and names cut at the identifier limit included.
C13_SanitizeIsIdempotent ==
    Sanitized(2) => calc.rets[2] = calc.rets[1]

\* a name that starts with a digit got the role prefix and was cut at the limit
C13_Witness ==
    /\ Sanitized(2)
    /\ Len(calc.arg) = MaxIdentLen - 1
    /\ IsDigitChar(calc.arg[1])
    /\ Len(calc.rets[1]) = MaxIdentLen
    /\ calc.rets[1][1] \in {"t", "c"}

\* ^[a-z_][a-z0-9_]{0,62}$
MatchesIdentifier(s) ==
    /\ Len(s) >= 1
    /\ Len(s) <= MaxIdentLen
    /\ IsLowerChar(s[1]) \/ s[1] = "_"
    /\ \A i \in DOMAIN s : IsLowerChar(s[i]) \/ IsDigitChar(s[i]) \/ s[i] = "_"

\* C14 (as claimed): the result of SanitizeTableName and of SanitizeColumnName
\* is a non-empty identifier of at most 63 characters that starts with a
\* lower-case letter or an underscore and holds only lower-case letters, digits
\* and underscores, for every name.
C14_SanitizedMatchesIdentifier ==
    Sanitized(1) => MatchesIdentifier(calc.rets[1])

\* InferColumnType has returned the type of the column under evaluation
Inferred == calc.fn = "InferColumnType" /\ Len(calc.rets) = 1

\* the sampled values of the runtime kinds, nil left out
SampledOf(kinds) == {i \in DOMAIN calc.arg : calc.arg[i].kind \in kinds}

\* the sampled texts that contain "20" and have at least 8 characters
SampledDates ==
    {i \in SampledOf({"string"}) :
        Contains(ToLower(calc.arg[i].v), <<"2", "0">>) /\ Len(calc.arg[i].v) >= 8}

\* C15: a column with an integer among its sampled values and nothing but
\* integers and nils infers as INTEGER, and a column with at least one float
\* among its sampled values infers as NUMERIC, whatever else was sampled.
C15_IntegerOrNumeric ==
    Inferred =>
        /\ SampledOf({"float"}) # {} => calc.rets[1] = "NUMERIC"
        /\ (SampledOf({"int"}) # {} /\ SampledOf({"float", "string", "bool"}) = {}) =>
               calc.rets[1] = "INTEGER"

\* a float next to an integer and a text
C15_Witness ==
    /\ Inferred
    /\ SampledOf({"float"}) # {}
    /\ SampledOf({"int"}) # {}
    /\ SampledOf({"string"}) # {}
    /\ calc.rets[1] = "NUMERIC"

\* C16 (as claimed): without a float among the sampled values, INTEGER is
\* returned only for a column with an integer and no text of any sort (plain
\* or date-like), DATE only for a column whose non-nil values are all
\* date-like texts, and TEXT in every other case: mixed columns (integers
\* together with text), booleans, all-nil columns.
C16_IntegerDateOrText ==
    (Inferred /\ SampledOf({"float"}) = {}) =>
        /\ calc.rets[1] \in {"INTEGER", "DATE", "TEXT"}
        /\ calc.rets[1] = "INTEGER" =>
               SampledOf({"int"}) # {} /\ SampledOf({"string"}) = {}
        /\ calc.rets[1] = "DATE" =>
               SampledDates # {} /\ SampledOf({"int", "string", "bool"}) = SampledDates
        /\ (SampledOf({"int"}) # {} /\ SampledOf({"string"}) # {}) => calc.rets[1] = "TEXT"
        /\ SampledOf({"bool"}) # {} => calc.rets[1] = "TEXT"
        /\ SampledOf({"int", "string", "bool"}) = {} => calc.rets[1] = "TEXT"

\* the classifier has returned its result for the columns under evaluation
Classified == calc.fn = "AnalyzeColumnsWithLLM" /\ Len(calc.rets) = 1

\* the lower-cased column name contains one of the words
NamesOneOf(colName, words) == \E w \in words : Contains(ToLower(colName), w)

\* the columns under evaluation whose name contains one of the words
ColumnsNaming(words) == {c \in Range(calc.arg) : NamesOneOf(c, words)}

\* the example of the claim: [customer_name, total_amount, order_date] gives
\* the dimensions {customer_name, order_date} and the facts {total_amount}
ExampleClassified ==
    calc.arg = <<CustomerName, TotalAmount, OrderDate>> =>
        /\ DOMAIN calc.rets[1].dimensions = {CustomerName, OrderDate}
        /\ calc.rets[1].facts = <<TotalAmount>>

\* C17 (as claimed): the columns tagged dimension are those whose name
\* contains a dimension word, the columns tagged fact are those whose name
\* contains a fact word, every other column is omitted, and the relationship
\* list is empty.
C17_ClassifiesByNameAlone ==
    Classified =>
        /\ DOMAIN calc.rets[1].dimensions = ColumnsNaming(DimensionWords)
        /\ Range(calc.rets[1].facts) = ColumnsNaming(FactWords)
        /\ calc.rets[1].relationships = <<>>
        /\ ExampleClassified

\* C17 (amended): the dimension words are looked for first: the columns
\* tagged dimension are those whose name contains a dimension word, the
\* columns tagged fact are those whose name contains a fact word and no
\* dimension word, in catalog order; every other column is omitted, and the
\* relationship list is empty.
C17_ClassifiesByNameDimensionFirst ==
    Classified =>
        /\ DOMAIN calc.rets[1].dimensions = ColumnsNaming(DimensionWords)
        /\ \A c \in DOMAIN calc.rets[1].dimensions : calc.rets[1].dimensions[c] = "dimension"
        /\ calc.rets[1].facts =
               SelectSeq(calc.arg, LAMBDA c : NamesOneOf(c, FactWords)
                                              /\ ~NamesOneOf(c, DimensionWords))
        /\ calc.rets[1].relationships = <<>>
        /\ ExampleClassified

\* a column with a word of both lists next to a fact column and an omitted one
C17_Witness ==
    /\ Classified
    /\ ColumnsNaming(DimensionWords) \cap ColumnsNaming(FactWords) # {}
    /\ calc.rets[1].facts # <<>>
    /\ Range(calc.arg) \ (ColumnsNaming(DimensionWords) \cup ColumnsNaming(FactWords)) # {}

\* the file of the claim under a path with the delimited-text extension
CustomersFile == File(<<"d", ".", "c", "s", "v">>, CustomersCsv, TRUE)

\* the two records of the file
CustomerRecords ==
    <<[k \in {<<"c", "u", "s", "t", "o", "m", "e", "r", "_", "i", "d">>, CustomerName} |->
          IF k = CustomerName THEN TextV(<<"J", "o", "h", "n">>) ELSE TextV(<<"1">>)],
      [k \in {<<"c", "u", "s", "t", "o", "m", "e", "r", "_", "i", "d">>, CustomerName} |->
          IF k = CustomerName THEN TextV(<<"J", "a", "n", "e">>) ELSE TextV(<<"2">>)]>>

\* the invocation processed the file and no service answered with an error
RanUndisturbed(p) ==
    /\ source[p] = "file"
    /\ pc[p] \in Final
    /\ \A i \in DOMAIN log[p] : ~log[p][i].env

\* C11: a run over the file with header customer_id,customer_name and the
\* rows (1,John) and (2,Jane), in which every service answers, ends
\* successfully with exactly these two records extracted as text, exactly two
\* inserts made, both successful, two rows with these values in the table, and
\* the view <table>_star_view returning exactly these two rows.
C11_CustomersEndToEnd ==
    \A p \in Procs :
        (file = CustomersFile /\ RanUndisturbed(p)) =>
            /\ pc[p] = "exit0"
            /\ data[p] = CustomerRecords
            /\ Len(CallsOf(p, "insert")) = 2
            /\ Len(SuccessfulInserts(p)) = 2
            /\ DOMAIN tables = {LoadTableName(2)}
            /\ LET rows == tables[LoadTableName(2)].rows
               IN  /\ Len(rows) = 2
                   /\ \A i \in 1..2 : WithoutId(rows[i]) = CustomerRecords[i]
                   /\ ViewName(LoadTableName(2)) \in DOMAIN views
                   /\ ViewRows(ViewName(LoadTableName(2))) = rows

C11_Witness ==
    /\ file = CustomersFile
    /\ RanUndisturbed("p1")
    /\ Len(ViewRows(ViewName(LoadTableName(2)))) = 2

Detected(p) == {log[p][i].rec : i \in Steps(p, "detect")}

\* the lower-cased extension of the path of the file
LowerExt == ToLower(Ext(file.path))

\* the format of each extension the claim lists, 0 for any other
FormatOfExt(ext) ==
    IF ext = <<".", "c", "s", "v">> THEN CSV
    ELSE IF ext = <<".", "j", "s", "o", "n">> THEN JSON
    ELSE IF ext = <<".", "x", "l", "s", "x">> THEN XLSX
    ELSE IF ext = <<".", "x", "l", "s">> THEN XLS
    ELSE IF ext = <<".", "d", "u", "m", "p">> THEN DUMP
    ELSE IF ext = <<".", "t", "a", "r">> THEN TAR
    ELSE IF ext = <<".", "s", "q", "l">> THEN SQL
    ELSE IF HasSuffix(ToLower(file.path), <<".", "t", "a", "r", ".", "g", "z">>) THEN TARGZ
    ELSE Unknown

\* C18: for a path with one of the extensions .csv, .json, .xlsx, .xls, .dump,
\* .tar, .tar.gz, .sql, in any case of letters, the detected format is the one
\* of the extension whatever the file holds and whether it can be read or not,
\* and the file is not read for the detection.
C18_ExtensionDecides ==
    \A p \in Procs :
        (Steps(p, "detect") # {} /\ FormatOfExt(LowerExt) # Unknown) =>
            /\ Detected(p) = {FormatOfExt(LowerExt)}
            /\ Steps(p, "sniff") = {}

\* a path with the extension in capitals over a structured document
C18_Witness ==
    /\ file.path = <<"D", ".", "C", "S", "V">>
    /\ file.content = <<"[", "{", "\"", "a", "\"", ":", "1", "}", "]">>
    /\ Detected("p1") = {CSV}

StartsWith(s, prefix) == Len(s) >= Len(prefix) /\ SubSeq(s, 1, Len(prefix)) = prefix

\* C19 (as claimed): for a path without a recognized extension the format is
\* JSON if the file holds a valid JSON document; otherwise XLSX if it starts
\* with the zip local-file signature; otherwise XLS if it starts with the
\* compound-binary signature; otherwise SQL if it holds one of the statement
\* words in any case of letters; otherwise, and when the file cannot be read,
\* Unknown.
C19_ContentDecides ==
    \A p \in Procs :
        (Steps(p, "detect") # {} /\ FormatOfExt(LowerExt) = Unknown
                                 /\ LowerExt # <<".", "g", "z">>) =>
            Detected(p) =
                {IF ~file.readable THEN Unknown
                 ELSE IF IsJsonValue(file.content) THEN JSON
                 ELSE IF StartsWith(file.content, <<"P", "K", "03", "04">>) THEN XLSX
                 ELSE IF StartsWith(file.content,
                                    <<"D0", "CF", "11", "E0", "A1", "B1", "1A", "E1">>) THEN XLS
                 ELSE IF \E w \in SqlWords : Contains(ToLower(file.content), w) THEN SQL
                 ELSE Unknown}

\* the calls of the extractors
ExtractorSteps ==
    {"ExtractFromCSV", "ExtractFromJSON", "ExtractFromXLSX", "ExtractFromXLS",
     "ExtractFromDump"}

\* C20: when the format detected is Unknown, ExtractFromFile returns an error
\* without calling an extractor, and the invocation ends with an error at
\* once: nothing is written to the object store and no statement is issued to
\* the warehouse.
C20_UnknownFormatAborts ==
    \A p \in Procs :
        Unknown \in Detected(p) =>
            /\ pc[p] = "exit1"
            /\ \A st \in ExtractorSteps : Steps(p, st) = {}
            /\ LastCall(p).step = "extract"
            /\ ~LastCall(p).ok
            /\ Steps(p, "archive") = {}
            /\ \A st \in WarehouseSteps : Steps(p, st) = {}
            /\ objects = <<>>
            /\ tables = <<>>
            /\ views = <<>>

\* a readable file of plain text under a path without extension
C20_Witness ==
    /\ file = File(<<"d">>, <<"h", "e", "l", "l", "o">>, TRUE)
    /\ Unknown \in Detected("p1")
    /\ pc["p1"] = "exit1"

\* the rows of a delimited text as they stand in the file: the non-empty
\* lines, each cut at its commas
CsvRows(content) ==
    LET lines == Split(content, "\n")
        solid == SelectSeq([k \in DOMAIN lines |-> StripCR(lines[k])], LAMBDA l : l # <<>>)
    IN  [k \in DOMAIN solid |-> Split(solid[k], ",")]

\* C21 (as claimed): a readable delimited text with a header row and no data
\* row makes ExtractFromCSV return an error, so that the invocation ends with
\* an error; and a spreadsheet extractor that returns no error returns at
\* least one record.
C21_HeaderOnlyIsError ==
    \A p \in Procs :
        /\ (/\ Steps(p, "ExtractFromCSV") # {}
            /\ file.readable
            /\ Len(CsvRows(file.content)) = 1) =>
               /\ Failed(p, "ExtractFromCSV")
               /\ Failed(p, "extract")
               /\ pc[p] = "exit1"
        /\ \A st \in {"ExtractFromXLSX", "ExtractFromXLS"} :
               Succeeded(p, st) => data[p] # <<>>

\* the record the claim gives a row: header[j] -> cell[j] for the cells the row has
PositionalRecord(header, row) ==
    [h \in {header[j] : j \in 1..Len(row)} |->
        TextV(row[CHOOSE j \in 1..Len(row) : header[j] = h])]

\* C22 (as claimed): a readable delimited text whose data rows have at most as
\* many cells as the header is extracted without error into one record per
\* data row, in order, and the record of a row with k cells holds exactly the
\* first k header names, each with the cell at its position.
C22_ShortRowsAreSparseRecords ==
    \A p \in Procs :
        LET rows == CsvRows(file.content)
        IN  (/\ Steps(p, "ExtractFromCSV") # {}
             /\ file.readable
             /\ rows # <<>>
             /\ "\"" \notin Range(file.content)
             /\ \A i \in DOMAIN rows : Len(rows[i]) <= Len(rows[1])) =>
                /\ Succeeded(p, "ExtractFromCSV")
                /\ Len(data[p]) = Len(rows) - 1
                /\ \A i \in DOMAIN data[p] :
                      data[p][i] = PositionalRecord(rows[1], rows[i + 1])

\* C23: ExtractFromDump returns an error exactly if the file cannot be
\* opened; for every readable file, INSERT INTO lines or not, it returns no
\* record and no error, and the extraction of the invocation succeeds with an
\* empty batch.
C23_DumpYieldsNothing ==
    \A p \in Procs :
        Steps(p, "ExtractFromDump") # {} =>
            /\ Succeeded(p, "ExtractFromDump") <=> file.readable
            /\ file.readable => (data[p] = <<>> /\ Succeeded(p, "extract"))
            /\ ~file.readable => (Failed(p, "extract") /\ pc[p] = "exit1")

\* a readable dump with an INSERT INTO line, processed to the end
C23_Witness ==
    /\ file = File(<<"d", ".", "d", "u", "m", "p">>, InsertDump, TRUE)
    /\ Len(InsertLines(file.content)) = 1
    /\ Succeeded("p1", "ExtractFromDump")
    /\ pc["p1"] = "exit0"

\* the invocation has read the source file: for the detection of its format
\* or in an extractor
ReadsOfFile(p) == Steps(p, "sniff") \cup UNION {Steps(p, st) : st \in ExtractorSteps}

\* C24 (as claimed): with the warehouse or the object store unreachable, an
\* invocation that has left main's first step has failed in NewETLService and
\* has ended with an error, without a read of the file, an extraction or a
\* write.
C24_UnreachableFailsAtStartup ==
    \A p \in Procs :
        ((reach.db = Unreachable \/ reach.minio = Unreachable) /\ pc[p] # "main") =>
            /\ pc[p] = "exit1"
            /\ Failed(p, "connect")
            /\ Len(log[p]) = 1
            /\ ReadsOfFile(p) = {}
            /\ Steps(p, "extract") = {}
            /\ Steps(p, "archive") = {}
            /\ \A st \in WarehouseSteps : Steps(p, st) = {}

\* the steps of a run in the order of the claim
StepOrder ==
    <<"connect", "extract", "transform", "archive", "load", "create", "insert",
      "analyze", "view">>

Rank(step) == CHOOSE r \in DOMAIN StepOrder : StepOrder[r] = step

\* call i of p comes after a call of the step that returned without error
After(p, i, step) == \E j \in 1..(i - 1) : log[p][j].step = step /\ log[p][j].ok

C26_Terminates == <>[](pc["p1"] \in Final)

\* an invocation over a batch of the greatest length has ended after a failed
\* insert and a successful one
C26_Witness ==
    /\ pc["p1"] \in Final
    /\ Len(data["p1"]) = MaxBatch
    /\ Failed("p1", "insert")
    /\ Succeeded("p1", "insert")

\* the columns of the batch under evaluation have been computed
SchemaComputed == calc.fn = "CreateTableIfNotExists" /\ Len(calc.rets) = 1

\* the records of the batch under evaluation up to the sample limit
FirstHundred == SubSeq(calc.arg, 1, Min({Len(calc.arg), SampleLimit}))

\* the values of the records under one key, in order, nil included
ValuesUnder(batch, key) ==
    LET at == {i \in DOMAIN batch : key \in DOMAIN batch[i]}
        nth(n) == CHOOSE i \in at : Cardinality({j \in at : j < i}) = n - 1
    IN  [n \in 1..Cardinality(at) |-> batch[nth(n)][key]]

\* C27: the columns of the table come from the first 100 records alone: one
\* column per key of these records, named by the sanitizer and typed by the
\* values these records hold under the key; the keys and the values of the
\* record at position 101 and of later ones have no influence.
C27_SchemaFromFirstHundred ==
    SchemaComputed =>
        /\ DOMAIN calc.rets[1] = UNION {DOMAIN FirstHundred[i] : i \in DOMAIN FirstHundred}
        /\ \A k \in DOMAIN calc.rets[1] :
              /\ calc.rets[1][k].name = SanitizeColumnName(k)
              /\ calc.rets[1][k].type = InferColumnType(ValuesUnder(FirstHundred, k))

\* a batch of integers whose record 101 holds a float and whose record 102
\* holds a key of its own
C27_Witness ==
    /\ SchemaComputed
    /\ Len(calc.arg) = SampleLimit + 2
    /\ calc.arg[SampleLimit + 1] = [k \in {<<"a">>} |-> FloatV(1)]
    /\ <<"B">> \in DOMAIN calc.arg[SampleLimit + 2]
    /\ DOMAIN calc.rets[1] = {<<"a">>}
    /\ calc.rets[1][<<"a">>].type = "INTEGER"

\* C28 (as claimed): the column list of every CREATE TABLE statement names no
\* column twice: the sanitized names of the keys of the batch are pairwise
\* distinct and none of them is id, and a table the statement created has one
\* column per key and the surrogate key.
C28_ColumnNamesDistinct ==
    \A p \in Procs :
        Steps(p, "create") # {} =>
            LET def == ColumnsDef(data[p])
            IN  /\ \A k1, k2 \in DOMAIN def : k1 # k2 => def[k1].name # def[k2].name
                /\ \A k \in DOMAIN def : def[k].name # IdCol
                /\ \A i \in Steps(p, "create") :
                      (log[p][i].ok /\ ~log[p][i].existed) =>
                          Cardinality(DOMAIN tables[log[p][i].tbl].cols)
                              = Cardinality(DOMAIN def) + 1

\* C29: once the table creation of a non-empty batch has succeeded the
\* invocation cannot end with an error: it ends successfully whatever the
\* outcomes of the inserts, of the classification and of the view statement,
\* so a successful run may have left no record in the table; and
\* LoadToPostgreSQL on an empty batch returns success at once, without a
\* statement, a table or a view.
C29_LoadSucceedsWhateverInsertsDo ==
    \A p \in Procs :
        /\ Succeeded(p, "create") =>
               /\ data[p] # <<>>
               /\ pc[p] # "exit1"
               /\ (Failed(p, "analyze") \/ Steps(p, "view") # {}) => pc[p] = "exit0"
        /\ (Steps(p, "load") # {} /\ data[p] = <<>>) =>
               /\ pc[p] = "exit0"
               /\ LastCall(p).step = "load"
               /\ \A st \in WarehouseSteps : Steps(p, st) = {}
               /\ tables = <<>>
               /\ views = <<>>

\* a successful run of two records of which none is in the table
C29_Witness ==
    \E p \in Procs :
        /\ pc[p] = "exit0"
        /\ Succeeded(p, "create")
        /\ Len(CallsOf(p, "insert")) = 2
        /\ ~Succeeded(p, "insert")
        /\ Succeeded(p, "view")
        /\ tables[LoadTableName(2)].rows = <<>>

\* C30: in every step of two invocations on the same stores,
\* (a) an invocation whose catalog query returned goes on to the view
\*     statement if the query succeeded, and ends successfully without a view
\*     statement if it failed, the views left as they are: a view that exists
\*     stays as it is and a view that is missing stays missing;
\* (b) an invocation that has ended makes no further step;
\* (c) the views change only by the view statement of an invocation whose
\*     catalog query succeeded just before, and the view it leaves is
\*     SELECT * FROM its table whatever the classification holds.
C30_ViewOnlyAfterClassification ==
    [][/\ \A p \in Procs :
             (pc[p] = "analyze" /\ pc'[p] # "analyze") =>
                 /\ log'[p][Len(log'[p])].step = "analyze"
                 /\ views' = views
                 /\ pc'[p] = IF log'[p][Len(log'[p])].ok THEN "view" ELSE "exit0"
       /\ \A p \in Procs : pc[p] \in Final => (pc'[p] = pc[p] /\ log'[p] = log[p])
       /\ views' # views =>
             \E p \in Procs :
                 LET tableName == LoadTableName(Len(data[p]))
                 IN  /\ pc[p] = "view"
                     /\ LastCall(p).step = "analyze"
                     /\ LastCall(p).ok
                     /\ views' = (ViewName(tableName) :>
                                     [columns |-> <<"*">>, from |-> tableName]) @@ views]_vars

\* the catalog query of one invocation failed while the view of its table
\* exists, created by the other invocation; the first has ended successfully
C30_Witness ==
    \E p, q \in Procs :
        /\ p # q
        /\ Failed(p, "analyze")
        /\ pc[p] = "exit0"
        /\ Steps(p, "view") = {}
        /\ Succeeded(q, "view")
        /\ Len(data[p]) = Len(data[q])
        /\ ViewName(LoadTableName(Len(data[p]))) \in DOMAIN views
        /\ analysis[p] = NoAnalysis

====
